---- MODULE Spec2Model ----
(***************************************************************************)
(* The prediction proxy of Forecast-my-park: the Next.js route handlers    *)
(* POST /api/predict, GET /api/parks and GET /api/health, which validate a *)
(* request, call the upstream ML service with fetch, classify its outcome  *)
(* and translate its JSON.  One request is handled at a time: the handlers *)
(* share no state, so the interleaving of two requests adds no behaviour.  *)
(*                                                                         *)
(* JavaScript values are tagged records (Undef, Null, Str, Num, Bool, Arr) *)
(* so that the handlers' truthiness tests (!x, a || b) are computed as the *)
(* runtime computes them.  A message is the sequence of the pieces of its  *)
(* template literal.  An operator that can throw returns Ok(v) or Throw(e).*)
(* The wall-clock timestamp of a response is left out.                     *)
(*                                                                         *)
(* Spec is the specification of the route handlers.  MapSpec is the        *)
(* specification of the Dashboard component's map aggregation              *)
(* (loadParks, loadMapPredictions and the handlers that start them), whose *)
(* calls of /api/parks and /api/predict are answered as the handlers       *)
(* answer; a chart request launched on the way stays pending.  MapFairSpec *)
(* is MapSpec between the dates the page opens with, with every call of a  *)
(* run settling in the end.  ChartSpec is the specification of the chart   *)
(* request (generatePredictions and the controls of the chart view); a map *)
(* run launched on the way stays pending.                                  *)
(***************************************************************************)
EXTENDS Integers, Sequences, FiniteSets, TLC

VARIABLES pc, endpoint, request, upstreamCalls, outcome, response

VARIABLES viewMode, parks, parksLoading, selectedMapDate, mapPredictions,
          mapPredictionsLoading, error, runs, lastWriter

serverVars == <<pc, endpoint, request, upstreamCalls, outcome, response>>

dashVars == <<viewMode, parks, parksLoading, selectedMapDate, mapPredictions,
              mapPredictionsLoading, error, runs, lastWriter>>

VARIABLES selectedPark, startDate, daysAhead, predictions, predictionsLoading,
          chartCalls, loadParksPark

chartVars == <<selectedPark, startDate, daysAhead, predictions, predictionsLoading,
               chartCalls, loadParksPark>>

vars == <<serverVars, dashVars, chartVars>>

(***************************************************************************)
(* Bounds of the model.                                                    *)
(***************************************************************************)
MaxPreds == 2
MaxParks == 2

(***************************************************************************)
(* JavaScript values.                                                      *)
(***************************************************************************)
Undef == [t |-> "undefined"]
Null == [t |-> "null"]
Str(s) == [t |-> "string", s |-> s]
Num(n) == [t |-> "number", n |-> n]
Bool(b) == [t |-> "boolean", b |-> b]
Arr(a) == [t |-> "array", a |-> a]

\* Mutant: an empty array counted as falsy.
Truthy_emptyArrayFalsy(v) ==
    CASE v.t = "undefined" -> FALSE
      [] v.t = "null" -> FALSE
      [] v.t = "string" -> v.s # ""
      [] v.t = "number" -> v.n # 0
      [] v.t = "boolean" -> v.b
      [] v.t = "array" -> v.a # <<>>
      [] OTHER -> TRUE

\* ToBoolean: undefined, null, "", 0 and false are falsy; an array (even an
\* empty one) is truthy.
Truthy(v) ==
    CASE v.t = "undefined" -> FALSE
      [] v.t = "null" -> FALSE
      [] v.t = "string" -> v.s # ""
      [] v.t = "number" -> v.n # 0
      [] v.t = "boolean" -> v.b
      [] OTHER -> TRUE

\* What a stretch of handler code ends in: a returned response, a thrown
\* error, or (validation passed) going on to the upstream call.
Ok(v) == [k |-> "return", value |-> v]
Throw(e) == [k |-> "throw", error |-> e]
Proceed == [k |-> "proceed"]

\* All sequences over S of length at most n.
SeqsUpTo(S, n) == UNION {[1..k -> S] : k \in 0..n}

(***************************************************************************)
(* Errors the runtime raises.  isError / isTypeError are the instanceof    *)
(* tests of the catch blocks; message is split into words so that          *)
(* message.includes('fetch') can be computed.                              *)
(***************************************************************************)
\* fetch could not connect: undici's TypeError "fetch failed".
ConnectionError ==
    [isError |-> TRUE, isTypeError |-> TRUE, name |-> "TypeError",
     message |-> <<"fetch", "failed">>]

\* AbortSignal.timeout(ms) aborts with a DOMException named TimeoutError and
\* fetch rejects with that reason.
TimeoutError ==
    [isError |-> TRUE, isTypeError |-> FALSE, name |-> "TimeoutError",
     message |-> <<"The", "operation", "was", "aborted", "due", "to", "timeout">>]

\* Runtimes that do not pass the signal's reason on reject an aborted fetch
\* with a DOMException named AbortError.
AbortError ==
    [isError |-> TRUE, isTypeError |-> FALSE, name |-> "AbortError",
     message |-> <<"This", "operation", "was", "aborted">>]

\* request.json() / response.json() on a body that is not JSON.
JsonSyntaxError ==
    [isError |-> TRUE, isTypeError |-> FALSE, name |-> "SyntaxError",
     message |-> <<"Unexpected", "token", "in", "JSON">>]

\* A property read on null (body.park_id, mlResponse.success, parks.map).
NullPropertyError ==
    [isError |-> TRUE, isTypeError |-> TRUE, name |-> "TypeError",
     message |-> <<"Cannot", "read", "properties", "of", "null">>]

\* new Response(body, {status}) with a null-body status and a body.
ResponseStatusError ==
    [isError |-> TRUE, isTypeError |-> TRUE, name |-> "TypeError",
     message |-> <<"Response", "constructor:", "Invalid", "response", "status", "code">>]

\* new Response(body, {status}) with a status outside 200..599.
ResponseRangeError ==
    [isError |-> TRUE, isTypeError |-> FALSE, name |-> "RangeError",
     message |-> <<"init[\"status\"]", "must", "be", "in", "the", "range", "of", "200", "to", "599">>]

\* error.message.includes('fetch')
MessageIncludesFetch(e) == \E i \in 1..Len(e.message) : e.message[i] = "fetch"

(***************************************************************************)
(* NextResponse.json(body, {status}): the Response constructor refuses a   *)
(* body with a null-body status (101, 103, 204, 205, 304) and a status     *)
(* outside 200..599.                                                       *)
(***************************************************************************)
NullBodyStatus == {101, 103, 204, 205, 304}

NextResponse_json(body, status) ==
    IF status < 200 \/ status > 599 THEN Throw(ResponseRangeError)
    ELSE IF status \in NullBodyStatus THEN Throw(ResponseStatusError)
    ELSE Ok([status |-> status, body |-> body])

(***************************************************************************)
(* Requests of POST /api/predict.  json is what request.json() yields: an  *)
(* object, the JSON null, or a syntax error.  A field is undefined         *)
(* (missing), null, a string or a number.                                  *)
(***************************************************************************)
MIN_DAYS_AHEAD == 1
MAX_DAYS_AHEAD == 365

ParkIdValues == {Undef, Null, Str(""), Str("YELL"), Str("XXXX")}
StartDateValues == {Undef, Str(""), Str("2025-07-04")}
DaysAheadValues ==
    {Undef, Null} \cup {Num(n) : n \in {-1, 0, 1, 2, MAX_DAYS_AHEAD - 1, MAX_DAYS_AHEAD,
                                   MAX_DAYS_AHEAD + 1, 500}}

ObjectBody(p, s, d) ==
    [json |-> "object", park_id |-> p, start_date |-> s, days_ahead |-> d]
NullBody == [json |-> "null"]
MalformedBody == [json |-> "malformed"]
NoRequest == [json |-> "none"]

RequestBodies ==
    {ObjectBody(p, s, d) : p \in ParkIdValues, s \in StartDateValues, d \in DaysAheadValues}
    \cup {NullBody, MalformedBody}

(***************************************************************************)
(* What the upstream call settles to: a rejection of fetch, or a reply     *)
(* with a status and a body.  text is response.text(), parsed is           *)
(* response.json().                                                        *)
(***************************************************************************)
Reject(e) == [kind |-> "reject", error |-> e]
Reply(status, text, parsed) ==
    [kind |-> "response", status |-> status, text |-> text, parsed |-> parsed]
NoOutcome == [kind |-> "none"]

OkStatuses == {200, 201}
\* 304 is no redirect: fetch hands it to the caller as it is, with ok false.
NotModifiedStatuses == {304}
ClientErrorStatuses == {400, 404, 422, 499}
ServerErrorStatuses == {500, 502, 503, 599}
ErrorTexts == {"", "{\"detail\":\"No model for park\"}", "Traceback: db password=..."}

\* response.ok
ResponseOk(o) == o.status >= 200 /\ o.status <= 299

ConnectionFailures == {Reject(ConnectionError)}
\* The signal of AbortSignal.timeout fired.
Timeouts == {Reject(TimeoutError), Reject(AbortError)}
ErrorReplies ==
    {Reply(st, tx, Throw(JsonSyntaxError)) :
        st \in NotModifiedStatuses \cup ClientErrorStatuses \cup ServerErrorStatuses,
        tx \in ErrorTexts}

(***************************************************************************)
(* Bodies of a 2xx reply of POST /predict (MLServiceResponse).             *)
(***************************************************************************)
MLServicePrediction ==
    [date : {"2025-07-04", "2025-07-10"}, predicted_visitors : {0, 1200},
     lower_bound : {900}, upper_bound : {1500}, confidence_interval : {"80%"}]

MLServiceResponse ==
    [success : {Undef, Bool(FALSE), Bool(TRUE)},
     predictions : {Undef, Null} \cup {Arr(a) : a \in SeqsUpTo(MLServicePrediction, MaxPreds)},
     error : {Undef, Str(""), Str("No trained model for park")}]

PredictOkReplies ==
    {Reply(st, "(json)", p) :
        st \in OkStatuses,
        p \in {Throw(JsonSyntaxError), Ok(Null)} \cup {Ok(m) : m \in MLServiceResponse}}

PredictOutcomes == ConnectionFailures \cup Timeouts \cup ErrorReplies \cup PredictOkReplies

(***************************************************************************)
(* POST /api/predict                                                       *)
(***************************************************************************)
MissingFieldsMessage == <<"Missing required fields: park_id, start_date, days_ahead">>
DaysAheadRangeMessage == <<"days_ahead must be between 1 and 365">>
UnavailableMessage == <<"ML service is currently unavailable. Please try again later.">>
CannotConnectMessage ==
    <<"Unable to connect to ML service. Please check if the service is running.">>
TimedOutMessage == <<"ML service request timed out. Please try again.">>
PredictUnexpectedMessage == <<"An unexpected error occurred while generating predictions.">>
FailedToGenerateMessage == <<"Failed to generate predictions">>
\* `ML service error: ${errorText}`
MLServiceErrorMessage(errorText) == <<"ML service error: ", errorText>>

\* Mutant: the start_date test forgotten.
MissingRequiredField_noStartDate(body) ==
    ~Truthy(body.park_id) \/ ~Truthy(body.days_ahead)

\* if (!body.park_id || !body.start_date || !body.days_ahead)
MissingRequiredField(body) ==
    ~Truthy(body.park_id) \/ ~Truthy(body.start_date) \/ ~Truthy(body.days_ahead)

\* Mutant: >= for > in the upper test.
DaysAheadOutOfRange_offByOne(body) ==
    body.days_ahead.n < MIN_DAYS_AHEAD \/ body.days_ahead.n >= MAX_DAYS_AHEAD

\* Mutant: the upper test forgotten.
DaysAheadOutOfRange_noUpper(body) ==
    body.days_ahead.n < MIN_DAYS_AHEAD

\* if (body.days_ahead < 1 || body.days_ahead > 365), on a number
DaysAheadOutOfRange(body) ==
    body.days_ahead.n < MIN_DAYS_AHEAD \/ body.days_ahead.n > MAX_DAYS_AHEAD

\* From request.json() to the end of the validation.
POST_validate(body) ==
    IF body.json = "malformed" THEN Throw(JsonSyntaxError)
    ELSE IF body.json = "null" THEN Throw(NullPropertyError)
    ELSE IF MissingRequiredField(body)
        THEN NextResponse_json([error |-> MissingFieldsMessage], 400)
    ELSE IF DaysAheadOutOfRange(body)
        THEN NextResponse_json([error |-> DaysAheadRangeMessage], 400)
    ELSE Proceed

PREDICT_TIMEOUT_MS == 30000

\* The fetch of the handler: POST ${ML_SERVICE_URL}/predict.
PredictCall(body) ==
    [method |-> "POST", path |-> "/predict", body |-> body, timeout |-> PREDICT_TIMEOUT_MS]

\* Mutant: the upstream text and status forwarded for every non-2xx reply.
POST_notOk_forwardAll(o) ==
    NextResponse_json([error |-> MLServiceErrorMessage(o.text)], o.status)

\* if (!response.ok) { ... }
POST_notOk(o) ==
    IF o.status >= 500
        THEN NextResponse_json([error |-> UnavailableMessage], 503)
        ELSE NextResponse_json([error |-> MLServiceErrorMessage(o.text)], o.status)

\* Mutant: the two bounds swapped.
TransformPredictions_swapBounds(preds) ==
    [i \in 1..Len(preds) |->
        [ds |-> preds[i].date, yhat |-> preds[i].predicted_visitors,
         yhat_lower |-> preds[i].upper_bound, yhat_upper |-> preds[i].lower_bound]]

\* mlResponse.predictions.map(pred => ({ds, yhat, yhat_lower, yhat_upper}))
TransformPredictions(preds) ==
    [i \in 1..Len(preds) |->
        [ds |-> preds[i].date, yhat |-> preds[i].predicted_visitors,
         yhat_lower |-> preds[i].lower_bound, yhat_upper |-> preds[i].upper_bound]]

CONFIDENCE_LEVEL == 80

\* Mutant: request_params echoes the number of days upstream returned.
PredictionResponse_echoReturned(body, mlResponse) ==
    [predictions |-> TransformPredictions(mlResponse.predictions.a),
     park_id |-> body.park_id,
     confidence_level |-> CONFIDENCE_LEVEL,
     model_performance |-> [mape |-> 0, mae |-> 0, rmse |-> 0],
     request_params |->
        [body EXCEPT !.days_ahead = Num(Len(mlResponse.predictions.a))]]

\* The 200 response: response_data spread, plus request_params.
PredictionResponse(body, mlResponse) ==
    [predictions |-> TransformPredictions(mlResponse.predictions.a),
     park_id |-> body.park_id,
     confidence_level |-> CONFIDENCE_LEVEL,
     model_performance |-> [mape |-> 0, mae |-> 0, rmse |-> 0],
     request_params |-> body]

\* Mutant: the upstream message dropped.
POST_semanticFailure_noMessage(mlResponse) ==
    NextResponse_json([error |-> FailedToGenerateMessage], 400)

\* if (!mlResponse.success || !mlResponse.predictions) { ... }
POST_semanticFailure(mlResponse) ==
    NextResponse_json(
        [error |-> IF Truthy(mlResponse.error) THEN <<mlResponse.error.s>>
                   ELSE FailedToGenerateMessage],
        400)

\* After a 2xx reply: response.json(), the success check, the translation.
POST_ok(body, o) ==
    IF o.parsed.k = "throw" THEN o.parsed
    ELSE IF o.parsed.value = Null THEN Throw(NullPropertyError)
    ELSE LET mlResponse == o.parsed.value IN
        IF ~Truthy(mlResponse.success) \/ ~Truthy(mlResponse.predictions)
            THEN POST_semanticFailure(mlResponse)
            ELSE NextResponse_json(PredictionResponse(body, mlResponse), 200)

\* The try block from the settling of fetch on.
POST_afterFetch(body, o) ==
    IF o.kind = "reject" THEN Throw(o.error)
    ELSE IF ~ResponseOk(o) THEN POST_notOk(o)
    ELSE POST_ok(body, o)

\* The catch block.
POST_catch(err) ==
    IF err.isTypeError /\ MessageIncludesFetch(err)
        THEN [status |-> 503, body |-> [error |-> CannotConnectMessage]]
    ELSE IF err.isError /\ err.name = "AbortError"
        THEN [status |-> 504, body |-> [error |-> TimedOutMessage]]
    ELSE [status |-> 500, body |-> [error |-> PredictUnexpectedMessage]]

\* The response the handler returns when a stretch of its try block ended in r.
\* Mutant: no catch block.
POST_respond_noCatch(r) == IF r.k = "throw" THEN [status |-> 0, uncaught |-> r.error] ELSE r.value

POST_respond(r) == IF r.k = "throw" THEN POST_catch(r.error) ELSE r.value

(***************************************************************************)
(* GET /api/parks                                                          *)
(***************************************************************************)
\* The static coordinate table (its entries for YELL, GRCA and ZION), in
\* ten-thousandths of a degree.
PARK_COORDINATES ==
    [p \in {"YELL", "GRCA", "ZION"} |->
        CASE p = "YELL" -> [lat |-> 444280, lng |-> -1105880]
          [] p = "GRCA" -> [lat |-> 361069, lng |-> -1121129]
          [] p = "ZION" -> [lat |-> 372982, lng |-> -1130263]]

\* Parks as upstream lists them; XXXX has no entry in the coordinate table.
Park == [park_id : {"YELL", "ZION", "XXXX"}, has_model : BOOLEAN]

ParksOkReplies ==
    {Reply(st, "(json)", p) :
        st \in OkStatuses,
        p \in {Throw(JsonSyntaxError), Ok(Null)}
              \cup {Ok(Arr(a)) : a \in SeqsUpTo(Park, MaxParks)}}

ParksOutcomes == ConnectionFailures \cup Timeouts \cup ErrorReplies \cup ParksOkReplies

ParksUnexpectedMessage == <<"An unexpected error occurred while fetching parks.">>

PARKS_TIMEOUT_MS == 10000

\* The fetch of the handler: GET ${ML_SERVICE_URL}/parks.
ParksCall ==
    [method |-> "GET", path |-> "/parks", body |-> NoRequest, timeout |-> PARKS_TIMEOUT_MS]

\* if (!response.ok) { ... }
GET_notOk(o) ==
    IF o.status >= 500
        THEN NextResponse_json([error |-> UnavailableMessage], 503)
        ELSE NextResponse_json([error |-> MLServiceErrorMessage(o.text)], o.status)

\* Mutant: latitude and longitude swapped.
WithCoordinates_swapped(park) ==
    IF park.park_id \in DOMAIN PARK_COORDINATES
        THEN [park_id |-> park.park_id, has_model |-> park.has_model,
              latitude |-> Num(PARK_COORDINATES[park.park_id].lng),
              longitude |-> Num(PARK_COORDINATES[park.park_id].lat)]
        ELSE [park_id |-> park.park_id, has_model |-> park.has_model,
              latitude |-> Undef, longitude |-> Undef]

\* {...park, latitude: coordinates?.lat, longitude: coordinates?.lng}
WithCoordinates(park) ==
    IF park.park_id \in DOMAIN PARK_COORDINATES
        THEN [park_id |-> park.park_id, has_model |-> park.has_model,
              latitude |-> Num(PARK_COORDINATES[park.park_id].lat),
              longitude |-> Num(PARK_COORDINATES[park.park_id].lng)]
        ELSE [park_id |-> park.park_id, has_model |-> park.has_model,
              latitude |-> Undef, longitude |-> Undef]

\* Mutant: the list filtered as parksWithCoords is (park.latitude &&
\* park.longitude) put in the response.
ParksWithCoordinates_filtered(parkList) ==
    LET HasCoords(park) == Truthy(park.latitude) /\ Truthy(park.longitude)
    IN  SelectSeq([i \in 1..Len(parkList) |-> WithCoordinates(parkList[i])], HasCoords)

\* parks.map(...)
ParksWithCoordinates(parkList) == [i \in 1..Len(parkList) |-> WithCoordinates(parkList[i])]

\* After a 2xx reply: response.json(), the enrichment, the 200 response.
GET_ok(o) ==
    IF o.parsed.k = "throw" THEN o.parsed
    ELSE IF o.parsed.value = Null THEN Throw(NullPropertyError)
    ELSE LET parksWithCoordinates == ParksWithCoordinates(o.parsed.value.a) IN
        NextResponse_json(
            [parks |-> parksWithCoordinates, total |-> Len(parksWithCoordinates)], 200)

\* The try block from the settling of fetch on.
GET_afterFetch(o) ==
    IF o.kind = "reject" THEN Throw(o.error)
    ELSE IF ~ResponseOk(o) THEN GET_notOk(o)
    ELSE GET_ok(o)

\* The catch block.
GET_catch(err) ==
    IF err.isTypeError /\ MessageIncludesFetch(err)
        THEN [status |-> 503, body |-> [error |-> CannotConnectMessage]]
    ELSE IF err.isError /\ err.name = "AbortError"
        THEN [status |-> 504, body |-> [error |-> TimedOutMessage]]
    ELSE [status |-> 500, body |-> [error |-> ParksUnexpectedMessage]]

GET_respond(r) == IF r.k = "throw" THEN GET_catch(r.error) ELSE r.value

(***************************************************************************)
(* GET /api/health                                                         *)
(***************************************************************************)
\* An exception that leaves the handler: no response is returned.
Uncaught(e) == [status |-> 0, uncaught |-> e]

\* Bodies of a 2xx reply of GET /health (HealthResponse).
HealthResponse ==
    [status : {Undef, Str("healthy"), Str("degraded"), Str("HEALTHY")},
     models_loaded : {Undef, Num(5)},
     database_connected : {Undef, Bool(TRUE)}]

HealthOkReplies ==
    {Reply(st, "(json)", p) :
        st \in OkStatuses,
        p \in {Throw(JsonSyntaxError), Ok(Null)} \cup {Ok(h) : h \in HealthResponse}}

HealthOutcomes == ConnectionFailures \cup Timeouts \cup ErrorReplies \cup HealthOkReplies

HEALTH_TIMEOUT_MS == 5000

\* The fetch of the handler: GET ${ML_SERVICE_URL}/health.
HealthCall ==
    [method |-> "GET", path |-> "/health", body |-> NoRequest, timeout |-> HEALTH_TIMEOUT_MS]

\* The three variables of the handler after its try / catch.
HealthProbe(o) ==
    LET unknown(st) ==
            [mlServiceStatus |-> Str(st), mlModelsLoaded |-> Num(0), dbConnected |-> Bool(FALSE)]
    IN  IF o.kind = "reject" THEN unknown("unavailable")
        ELSE IF ~ResponseOk(o) THEN unknown("error")
        ELSE IF o.parsed.k = "throw" THEN unknown("unavailable")
        ELSE IF o.parsed.value = Null THEN unknown("unavailable")
        ELSE LET mlHealth == o.parsed.value IN
            [mlServiceStatus |-> mlHealth.status,
             mlModelsLoaded |->
                IF Truthy(mlHealth.models_loaded) THEN mlHealth.models_loaded ELSE Num(0),
             dbConnected |->
                IF Truthy(mlHealth.database_connected) THEN mlHealth.database_connected
                ELSE Bool(FALSE)]

\* status: mlServiceStatus === 'healthy' ? 'healthy' : 'degraded'
HealthAggregateStatus(mlServiceStatus) ==
    IF mlServiceStatus = Str("healthy") THEN "healthy" ELSE "degraded"

\* Mutant: every status but 'unavailable' answered 200.
HealthStatusCode_reachable(mlServiceStatus) ==
    IF mlServiceStatus # Str("unavailable") THEN 200 ELSE 503

\* const statusCode = mlServiceStatus === 'healthy' ? 200 : 503
HealthStatusCode(mlServiceStatus) ==
    IF mlServiceStatus = Str("healthy") THEN 200 ELSE 503

\* healthData (timestamp, response_time_ms and the two values read from the
\* process environment left out) and the response.
GET_health(o) ==
    LET probe == HealthProbe(o) IN
        NextResponse_json(
            [status |-> HealthAggregateStatus(probe.mlServiceStatus),
             frontend |-> [status |-> "healthy"],
             ml_service |->
                [status |-> probe.mlServiceStatus,
                 models_loaded |-> probe.mlModelsLoaded,
                 database_connected |-> probe.dbConnected]],
            HealthStatusCode(probe.mlServiceStatus))

\* The return statement stands outside the try: what it throws is not caught.
HEALTH_respond(r) == IF r.k = "throw" THEN Uncaught(r.error) ELSE r.value

NoResponse == [status |-> 0]

(***************************************************************************)
(* The state machine.                                                      *)
(***************************************************************************)
\* Date strings the map date can hold: the day after today at mount, then the
\* date input's value (a typed date need not lie between its min and max).
MapDates == {"2025-07-03", "2025-07-04", "2025-07-05", "2026-07-04"}

TomorrowValues == {"2025-07-05", "2026-07-04"}

\* getToday() at mount with addDaysToDate(getToday(), 1).
TodayAndTomorrow == {<<"2025-07-04", "2025-07-05">>, <<"2026-07-03", "2026-07-04">>}

\* useState<number>(14)
INITIAL_DAYS_AHEAD == 14

\* The value of the error state: null or a message.
ErrorMessage(m) == [t |-> "string", pieces |-> m]

\* The mapPredictions object with no key.
NoPredictions == [id \in {} |-> Null]

\* The dashboard after its first render and its mount effects: loadParks is
\* awaiting /api/parks; the park list is empty, so no map run has started.
Mounted ==
    /\ viewMode = "map"
    /\ parks = <<>>
    /\ parksLoading = TRUE
    /\ selectedMapDate \in TomorrowValues
    /\ mapPredictions = NoPredictions
    /\ mapPredictionsLoading = FALSE
    /\ error = Null
    /\ runs = <<>>
    /\ lastWriter = 0
    /\ selectedPark = Null
    /\ \E t \in TodayAndTomorrow : startDate = t[1] /\ selectedMapDate = t[2]
    /\ daysAhead = INITIAL_DAYS_AHEAD
    /\ predictions = Null
    /\ predictionsLoading = FALSE
    /\ chartCalls = <<>>
    /\ loadParksPark = Null

Init ==
    /\ pc = "idle"
    /\ endpoint = "none"
    /\ request = NoRequest
    /\ upstreamCalls = <<>>
    /\ outcome = NoOutcome
    /\ response = NoResponse
    /\ Mounted

\* POST /api/predict arrives: the handler runs up to its response (400, 500)
\* or up to the await of fetch.
PredictReceive(body) ==
    /\ pc = "idle"
    /\ UNCHANGED <<dashVars, chartVars>>
    /\ endpoint' = "predict"
    /\ request' = body
    /\ outcome' = NoOutcome
    /\ LET r == POST_validate(body) IN
        IF r.k = "proceed"
            THEN /\ upstreamCalls' = Append(upstreamCalls, PredictCall(body))
                 /\ pc' = "fetching"
                 /\ response' = NoResponse
            ELSE /\ upstreamCalls' = upstreamCalls
                 /\ pc' = "done"
                 /\ response' = POST_respond(r)

\* The upstream call of POST /api/predict settles and the handler finishes.
PredictSettle(o) ==
    /\ pc = "fetching"
    /\ endpoint = "predict"
    /\ outcome' = o
    /\ response' = POST_respond(POST_afterFetch(request, o))
    /\ pc' = "done"
    /\ UNCHANGED <<endpoint, request, upstreamCalls>>
    /\ UNCHANGED <<dashVars, chartVars>>

\* GET /api/parks arrives: the handler runs up to the await of fetch.
ParksReceive ==
    /\ pc = "idle"
    /\ endpoint' = "parks"
    /\ upstreamCalls' = Append(upstreamCalls, ParksCall)
    /\ pc' = "fetching"
    /\ UNCHANGED <<request, outcome, response>>
    /\ UNCHANGED <<dashVars, chartVars>>

\* The upstream call of GET /api/parks settles and the handler finishes.
ParksSettle(o) ==
    /\ pc = "fetching"
    /\ endpoint = "parks"
    /\ outcome' = o
    /\ response' = GET_respond(GET_afterFetch(o))
    /\ pc' = "done"
    /\ UNCHANGED <<endpoint, request, upstreamCalls>>
    /\ UNCHANGED <<dashVars, chartVars>>

\* GET /api/health arrives: the handler runs up to the await of fetch.
HealthReceive ==
    /\ pc = "idle"
    /\ endpoint' = "health"
    /\ upstreamCalls' = Append(upstreamCalls, HealthCall)
    /\ pc' = "fetching"
    /\ UNCHANGED <<request, outcome, response>>
    /\ UNCHANGED <<dashVars, chartVars>>

\* The upstream call of GET /api/health settles and the handler finishes.
HealthSettle(o) ==
    /\ pc = "fetching"
    /\ endpoint = "health"
    /\ outcome' = o
    /\ response' = HEALTH_respond(GET_health(o))
    /\ pc' = "done"
    /\ UNCHANGED <<endpoint, request, upstreamCalls>>
    /\ UNCHANGED <<dashVars, chartVars>>

\* The response is sent; the server is ready for the next request.
Return ==
    /\ pc = "done"
    /\ UNCHANGED <<dashVars, chartVars>>
    /\ pc' = "idle"
    /\ endpoint' = "none"
    /\ request' = NoRequest
    /\ upstreamCalls' = <<>>
    /\ outcome' = NoOutcome
    /\ response' = NoResponse

Next ==
    \/ \E body \in RequestBodies : PredictReceive(body)
    \/ \E o \in PredictOutcomes : PredictSettle(o)
    \/ ParksReceive
    \/ \E o \in ParksOutcomes : ParksSettle(o)
    \/ HealthReceive
    \/ \E o \in HealthOutcomes : HealthSettle(o)
    \/ Return

Spec == Init /\ [][Next]_vars

(***************************************************************************)
(* The dashboard (the page component): the browser-held state and          *)
(* loadMapPredictions, the map aggregation.  /api/parks and /api/predict   *)
(* answer the browser as the handlers above answer.                        *)
(*                                                                         *)
(* runs holds every loadMapPredictions run in launch order, with the       *)
(* number of its setMapPredictions calls (writes); lastWriter is the run   *)
(* whose setMapPredictions call was the last one (0: none yet).            *)
(***************************************************************************)
MaxRuns == 2

\* The year, month and day a date-only ISO string denotes.
ParseISODate(str) ==
    CASE str = "2025-07-03" -> [valid |-> TRUE, y |-> 2025, m |-> 7, d |-> 3]
      [] str = "2025-07-04" -> [valid |-> TRUE, y |-> 2025, m |-> 7, d |-> 4]
      [] str = "2025-07-05" -> [valid |-> TRUE, y |-> 2025, m |-> 7, d |-> 5]
      [] str = "2025-07-10" -> [valid |-> TRUE, y |-> 2025, m |-> 7, d |-> 10]
      [] str = "2026-07-03" -> [valid |-> TRUE, y |-> 2026, m |-> 7, d |-> 3]
      [] str = "2026-07-04" -> [valid |-> TRUE, y |-> 2026, m |-> 7, d |-> 4]
      [] OTHER -> [valid |-> FALSE]

\* Days from 1970-01-01 to y-m-d in the proleptic Gregorian calendar.
DaysFromCivil(y, m, d) ==
    LET yy == IF m <= 2 THEN y - 1 ELSE y
        era == yy \div 400
        yoe == yy - era * 400
        mp == IF m > 2 THEN m - 3 ELSE m + 9
        doy == (153 * mp + 2) \div 5 + d - 1
        doe == yoe * 365 + yoe \div 4 - yoe \div 100 + doy
    IN  era * 146097 + doe - 719468

\* 1000 * 60 * 60 * 24 milliseconds, counted in seconds: the times here are
\* midnights, whole seconds, and their millisecond counts exceed 32 bits.
SECONDS_PER_DAY == 86400

NaN == [t |-> "NaN"]

\* new Date(str).getTime(), in seconds: a date-only string is midnight UTC;
\* NaN for an invalid date.
GetTime(str) ==
    LET f == ParseISODate(str) IN
        IF f.valid THEN Num(DaysFromCivil(f.y, f.m, f.d) * SECONDS_PER_DAY) ELSE NaN

\* Math.ceil(a / b) for b > 0.
CeilDiv(a, b) == -((-a) \div b)

BASE_DATE == "2025-07-04"

\* Math.ceil((selectedDateTime.getTime() - baseDateTime.getTime()) / (1000*60*60*24))
DaysFromBase(selectedDate) ==
    LET sel == GetTime(selectedDate)
        base == GetTime(BASE_DATE)
    IN  IF sel = NaN \/ base = NaN THEN NaN
        ELSE Num(CeilDiv(sel.n - base.n, SECONDS_PER_DAY))

\* Mutant: the + 1 forgotten.
MapDaysAhead_noPlusOne(daysFromBase) ==
    IF daysFromBase = NaN THEN NaN
    ELSE Num(IF daysFromBase.n > 1 THEN daysFromBase.n ELSE 1)

\* Math.max(1, daysFromBase + 1)
MapDaysAhead(daysFromBase) ==
    IF daysFromBase = NaN THEN NaN
    ELSE Num(IF daysFromBase.n + 1 > 1 THEN daysFromBase.n + 1 ELSE 1)

\* JSON.stringify of a number: NaN becomes null.
JsonNumber(v) == IF v = NaN THEN Null ELSE v

\* The request of one park: body of fetch("/api/predict", {method: "POST"}).
MapRequest(park, selectedDate) ==
    ObjectBody(Str(park.park_id), Str(BASE_DATE),
               JsonNumber(MapDaysAhead(DaysFromBase(selectedDate))))

\* Mutant: the has_model test forgotten.
ParksWithModels_all(parkList) == parkList

\* parks.filter((park) => park.has_model)
ParksWithModels(parkList) ==
    LET HasModel(park) == park.has_model IN SelectSeq(parkList, HasModel)

(***************************************************************************)
(* What fetch yields in the browser: a rejection, or a response whose      *)
(* body response.json() parses or fails to parse.                          *)
(***************************************************************************)
NetworkError ==
    [isError |-> TRUE, isTypeError |-> TRUE, name |-> "TypeError",
     message |-> <<"Failed to fetch">>]

\* The response of a route handler as the browser receives it.
Received(r) == [kind |-> "response", status |-> r.status, json |-> Ok(r.body)]

\* A 200 response whose body breaks off: response.json() rejects.
BrokenBody == [kind |-> "response", status |-> 200, json |-> Throw(JsonSyntaxError)]

\* Upstream outcomes of /parks behind the dashboard's park list.
MapUpstreamParks ==
    {<<>>,
     <<[park_id |-> "YELL", has_model |-> TRUE], [park_id |-> "XXXX", has_model |-> FALSE],
       [park_id |-> "ZION", has_model |-> TRUE]>>}

MapParksUpstream ==
    {Reject(ConnectionError)}
        \cup {Reply(200, "(json)", Ok(Arr(a))) : a \in MapUpstreamParks}

\* What fetch("/api/parks") can yield.
ParksApiOutcomes == {Received(GET_respond(GET_afterFetch(o))) : o \in MapParksUpstream}

\* Upstream outcomes of /predict behind the map's calls: a connection
\* failure, or the forecast, one record per day in chronological order.
MapUpstreamPoints ==
    {[date |-> d, predicted_visitors |-> 1200, lower_bound |-> 900,
      upper_bound |-> 1500, confidence_interval |-> "80%"] :
        d \in {"2025-07-04", "2025-07-05", "2025-07-10"}}

DayNumber(str) ==
    LET f == ParseISODate(str) IN DaysFromCivil(f.y, f.m, f.d)

Chronological(a) ==
    \A i \in 1..Len(a) - 1 : DayNumber(a[i].date) < DayNumber(a[i + 1].date)

MapPredictUpstream ==
    {Reject(ConnectionError)}
        \cup {Reply(200, "(json)",
                    Ok([success |-> Bool(TRUE), predictions |-> Arr(a), error |-> Undef])) :
                a \in {b \in SeqsUpTo(MapUpstreamPoints, MaxPreds) : Chronological(b)}}

\* The response of POST /api/predict to body when upstream behaves as o.
PredictApiResponse(body, o) ==
    LET v == POST_validate(body) IN
        IF v.k = "proceed" THEN POST_respond(POST_afterFetch(body, o))
        ELSE POST_respond(v)

\* What fetch("/api/predict", {body}) can yield.
PredictApiOutcomes(body) ==
    {Reject(NetworkError), BrokenBody}
        \cup {Received(PredictApiResponse(body, o)) : o \in MapPredictUpstream}

\* response.ok in the browser.
FetchOk(o) == o.status >= 200 /\ o.status <= 299

(***************************************************************************)
(* loadParks                                                               *)
(***************************************************************************)
FailedToLoadParksMessage == <<"Failed to load parks">>

\* What loadParks does with the outcome of fetch("/api/parks"): the new park
\* list (setParks) or the error message (setError).
LoadParksResult(o) ==
    IF o.kind = "reject" THEN Throw(o.error.message)
    ELSE IF o.json.k = "throw" THEN Throw(o.json.error.message)
    ELSE LET data == o.json.value IN
        IF ~FetchOk(o)
            THEN Throw(IF "error" \in DOMAIN data /\ data.error # <<>>
                          THEN data.error ELSE FailedToLoadParksMessage)
            ELSE Ok(IF "parks" \in DOMAIN data THEN data.parks ELSE <<>>)

(***************************************************************************)
(* loadMapPredictions                                                      *)
(***************************************************************************)
MapFailedMessage == <<"Failed to load some predictions for map view">>

Pending == [t |-> "pending"]

\* Mutant: no filter by date.
FilterPredictions_keepAll(data, selectedDate) == data

\* data.predictions = data.predictions.filter((pred) => pred.ds === selectedMapDate)
FilterPredictions(data, selectedDate) ==
    LET OfDate(pred) == pred.ds = selectedDate IN
        IF "predictions" \in DOMAIN data
            THEN [data EXCEPT !.predictions = SelectSeq(@, OfDate)]
            ELSE data

\* The async callback of parksWithModels.map: what one park's promise
\* resolves to when its fetch yields o.
MapCallResult(park, selectedDate, o) ==
    IF o.kind = "reject" THEN Null
    ELSE IF ~FetchOk(o) THEN Null
    ELSE IF o.json.k = "throw" THEN Null
    ELSE [park_id |-> park.park_id,
          data |-> FilterPredictions(o.json.value, selectedDate)]

\* The synchronous stretch of a run up to Promise.all: the run record, with
\* the requests of the fetches it issued.
StartRun(parkList, selectedDate) ==
    IF \E i \in 1..Len(parkList) : parkList[i] = Null
        THEN [status |-> "failed", date |-> selectedDate, parks |-> parkList,
              requests |-> <<>>, results |-> <<>>, writes |-> 0]
        ELSE LET parksWithModels == ParksWithModels(parkList) IN
            [status |-> "fetching", date |-> selectedDate, parks |-> parkList,
             requests |-> [i \in 1..Len(parksWithModels) |->
                              MapRequest(parksWithModels[i], selectedDate)],
             results |-> [i \in 1..Len(parksWithModels) |-> Pending],
             writes |-> 0]

\* Mutant: Promise.race in place of Promise.all.
AllSettled_race(results) ==
    results = <<>> \/ \E i \in 1..Len(results) : results[i] # Pending

\* Mutant: Promise.all waiting for ever once a call has failed.
AllSettled_noFailure(results) ==
    \A i \in 1..Len(results) : results[i] # Pending /\ results[i] # Null

\* Promise.all(predictionPromises) has resolved.
AllSettled(results) == \A i \in 1..Len(results) : results[i] # Pending

\* Mutant: Promise.all semantics without the per-park catch: one failed call
\* and nothing is kept.
NewMapPredictions_allOrNothing(results) ==
    IF \E i \in 1..Len(results) : results[i] = Null
        THEN NoPredictions
        ELSE [id \in {results[i].park_id : i \in 1..Len(results)} |->
                 results[CHOOSE i \in 1..Len(results) : results[i].park_id = id].data]

\* results.forEach((result) => { if (result) newMapPredictions[result.park_id] = result.data })
NewMapPredictions(results) ==
    LET Kept == {i \in 1..Len(results) : results[i] # Null /\ results[i] # Pending}
        Last(id) == CHOOSE i \in Kept :
                        /\ results[i].park_id = id
                        /\ \A j \in Kept : results[j].park_id = id => j <= i
    IN  [id \in {results[i].park_id : i \in Kept} |-> results[Last(id)].data]

(***************************************************************************)
(* The dashboard's steps.  A state change, the render it causes and the    *)
(* effects of that render are one step; so are the settling of a run's     *)
(* last call and the continuation of its Promise.all.                      *)
(***************************************************************************)
\* loadMapPredictions is called with the park list and the date of the
\* current render: setMapPredictionsLoading(true), setError(null), the
\* fetches; the catch and finally blocks when the stretch throws; the
\* continuation at once when there is no call to await.
Launch(parkList, selectedDate) ==
    LET run == StartRun(parkList, selectedDate) IN
        /\ Len(runs) < MaxRuns
        /\ IF run.status = "failed"
            THEN /\ runs' = Append(runs, run)
                 /\ error' = ErrorMessage(MapFailedMessage)
                 /\ mapPredictionsLoading' = FALSE
                 /\ UNCHANGED <<mapPredictions, lastWriter>>
            ELSE IF AllSettled(run.results)
            THEN /\ runs' = Append(runs, [run EXCEPT !.status = "complete", !.writes = @ + 1])
                 /\ error' = Null
                 /\ mapPredictions' = NewMapPredictions(run.results)
                 /\ lastWriter' = Len(runs) + 1
                 /\ mapPredictionsLoading' = FALSE
            ELSE /\ runs' = Append(runs, run)
                 /\ error' = Null
                 /\ mapPredictionsLoading' = TRUE
                 /\ UNCHANGED <<mapPredictions, lastWriter>>

\* Mutant: the parks.length > 0 test forgotten.
MapEffect_anyList(mode, parkList, selectedDate, errorNow) ==
    IF mode = "map"
        THEN Launch(parkList, selectedDate)
        ELSE /\ error' = errorNow
             /\ UNCHANGED <<mapPredictions, mapPredictionsLoading, runs, lastWriter>>

\* The map effect: if (viewMode === "map" && parks.length > 0) loadMapPredictions()
MapEffect(mode, parkList, selectedDate, errorNow) ==
    IF mode = "map" /\ Len(parkList) > 0
        THEN Launch(parkList, selectedDate)
        ELSE /\ error' = errorNow
             /\ UNCHANGED <<mapPredictions, mapPredictionsLoading, runs, lastWriter>>

(***************************************************************************)
(* The chart request.  chartCalls holds every generatePredictions call in  *)
(* launch order, with its request body; loadParksPark is the selectedPark  *)
(* the loadParks call in flight closed over.                               *)
(***************************************************************************)
MaxChartCalls == 2

\* Values the start date input and the days-ahead slider are moved to.
ChartStartDates == {"2025-07-04", "2025-07-05"}
ChartDaysAhead == {7, 14}

MapIdle == UNCHANGED <<mapPredictions, mapPredictionsLoading, runs, lastWriter>>

ChartIdle == UNCHANGED <<predictions, predictionsLoading, chartCalls>>

FailedToGeneratePredictionsMessage == <<"Failed to generate predictions">>

\* The request of generatePredictions.
ChartRequest(park, start, days) ==
    ObjectBody(Str(park.park_id), Str(start), Num(days))

\* generatePredictions up to its fetch, with the park, the start date and
\* the days-ahead of the render that called it.
Generate(park, start, days) ==
    /\ Len(chartCalls) < MaxChartCalls
    /\ predictionsLoading' = TRUE
    /\ error' = Null
    /\ chartCalls' = Append(chartCalls,
                            [request |-> ChartRequest(park, start, days), settled |-> FALSE])
    /\ UNCHANGED predictions

\* if (selectedPark && startDate && daysAhead > 0 && viewMode === "chart")
ChartReady(mode, park, start, days) ==
    mode = "chart" /\ park # Null /\ start # "" /\ days > 0

\* The effects after a render: the chart effect when one of its
\* dependencies changed, the map effect otherwise (the callers leave the
\* dependencies of one of the two unchanged).
RenderEffects(mode, parkList, selectedDate, park, start, days, chartChanged, errorNow) ==
    IF chartChanged /\ ChartReady(mode, park, start, days)
        THEN Generate(park, start, days) /\ MapIdle
        ELSE MapEffect(mode, parkList, selectedDate, errorNow) /\ ChartIdle

\* (data.parks || []).find((park) => park.has_model)
ParkWithModel(parkList) ==
    LET parksWithModels == ParksWithModels(parkList) IN
        IF parksWithModels = <<>> THEN Null ELSE Head(parksWithModels)

\* fetch("/api/parks") of loadParks settles: setParks or setError, then
\* setParksLoading(false); the first park with a model is selected when
\* loadParks was called with no park selected; the new park list runs the
\* map effect, a new selected park the chart effect.
LoadParksSettle(o) ==
    /\ parksLoading
    /\ parksLoading' = FALSE
    /\ LET r == LoadParksResult(o) IN
        IF r.k = "throw"
            THEN /\ error' = ErrorMessage(r.error)
                 /\ UNCHANGED <<parks, selectedPark>>
                 /\ MapIdle
                 /\ ChartIdle
            ELSE LET parkWithModel == ParkWithModel(r.value)
                     park == IF parkWithModel # Null /\ loadParksPark = Null
                                THEN parkWithModel ELSE selectedPark
                 IN  /\ parks' = r.value
                     /\ selectedPark' = park
                     /\ RenderEffects(viewMode, r.value, selectedMapDate, park, startDate,
                                      daysAhead, park # selectedPark, error)
    /\ UNCHANGED <<viewMode, selectedMapDate, startDate, daysAhead, loadParksPark>>
    /\ UNCHANGED serverVars

\* The date input of the map view changes: setSelectedMapDate, then the map
\* effect.
SelectMapDate(d) ==
    /\ viewMode = "map"
    /\ d # selectedMapDate
    /\ selectedMapDate' = d
    /\ MapEffect(viewMode, parks, d, error)
    /\ UNCHANGED <<viewMode, parks, parksLoading>>
    /\ UNCHANGED <<serverVars, chartVars>>

\* handleViewModeChange: setViewMode(mode), setError(null); the map effect
\* or the chart effect runs when viewMode changed.
ChangeViewMode(mode) ==
    /\ viewMode' = mode
    /\ IF mode # viewMode
        THEN RenderEffects(mode, parks, selectedMapDate, selectedPark, startDate,
                           daysAhead, TRUE, Null)
        ELSE /\ error' = Null
             /\ MapIdle
             /\ ChartIdle
    /\ UNCHANGED <<parks, parksLoading, selectedMapDate>>
    /\ UNCHANGED <<selectedPark, startDate, daysAhead, loadParksPark>>
    /\ UNCHANGED serverVars

\* handleRefresh (the button is disabled while a loading flag is set): in
\* chart view with a park generatePredictions(), in map view
\* loadMapPredictions(), then loadParks() up to its fetch.
Refresh ==
    /\ ~parksLoading /\ ~predictionsLoading /\ ~mapPredictionsLoading
    /\ parksLoading' = TRUE
    /\ loadParksPark' = selectedPark
    /\ IF viewMode = "chart" /\ selectedPark # Null
        THEN Generate(selectedPark, startDate, daysAhead) /\ MapIdle
       ELSE IF viewMode = "map"
        THEN Launch(parks, selectedMapDate) /\ ChartIdle
        ELSE /\ error' = Null
             /\ MapIdle
             /\ ChartIdle
    /\ UNCHANGED <<viewMode, parks, selectedMapDate>>
    /\ UNCHANGED <<selectedPark, startDate, daysAhead>>
    /\ UNCHANGED serverVars

\* Mutant: each result patched into the set as it arrives.
SettleCall_patchInPlace(r, i, o) ==
    /\ runs[r].status = "fetching"
    /\ runs[r].results[i] = Pending
    /\ LET run == runs[r]
           park == ParksWithModels(run.parks)[i]
           result == MapCallResult(park, run.date, o)
           results == [run.results EXCEPT ![i] = result]
       IN  /\ runs' = [runs EXCEPT ![r] =
                        [run EXCEPT !.results = results,
                                    !.status = IF AllSettled(results) THEN "complete" ELSE @,
                                    !.writes = IF AllSettled(results) THEN 1 ELSE 0]]
           /\ mapPredictions' =
                IF result = Null THEN mapPredictions
                ELSE [id \in DOMAIN mapPredictions \cup {result.park_id} |->
                         IF id = result.park_id THEN result.data ELSE mapPredictions[id]]
           /\ lastWriter' = IF result = Null THEN lastWriter ELSE r
           /\ mapPredictionsLoading' =
                IF AllSettled(results) THEN FALSE ELSE mapPredictionsLoading
    /\ UNCHANGED <<viewMode, parks, parksLoading, selectedMapDate, error>>
    /\ UNCHANGED <<serverVars, chartVars>>

\* The fetch of call i of run r settles with o; when it was the last pending
\* call, Promise.all resolves: setMapPredictions(newMapPredictions) and, in
\* the finally block, setMapPredictionsLoading(false).
SettleCall(r, i, o) ==
    /\ runs[r].status = "fetching"
    /\ runs[r].results[i] = Pending
    /\ LET run == runs[r]
           park == ParksWithModels(run.parks)[i]
           results == [run.results EXCEPT ![i] = MapCallResult(park, run.date, o)]
       IN  IF AllSettled(results)
            THEN /\ runs' = [runs EXCEPT ![r] =
                                [run EXCEPT !.results = results, !.status = "complete",
                                            !.writes = @ + 1]]
                 /\ mapPredictions' = NewMapPredictions(results)
                 /\ lastWriter' = r
                 /\ mapPredictionsLoading' = FALSE
            ELSE /\ runs' = [runs EXCEPT ![r] = [run EXCEPT !.results = results]]
                 /\ UNCHANGED <<mapPredictions, lastWriter, mapPredictionsLoading>>
    /\ UNCHANGED <<viewMode, parks, parksLoading, selectedMapDate, error>>
    /\ UNCHANGED <<serverVars, chartVars>>

MapNext ==
    \/ \E o \in ParksApiOutcomes : LoadParksSettle(o)
    \/ \E d \in MapDates : SelectMapDate(d)
    \/ \E mode \in {"map", "chart"} : ChangeViewMode(mode)
    \/ Refresh
    \/ \E r \in 1..Len(runs) : \E i \in 1..Len(runs[r].results) :
            \E o \in PredictApiOutcomes(runs[r].requests[i]) : SettleCall(r, i, o)

MapSpec == Init /\ [][MapNext]_vars

\* onParkChange of the park selector (parks without a model are disabled).
SelectPark(i) ==
    /\ viewMode = "chart"
    /\ parks[i].has_model
    /\ parks[i] # selectedPark
    /\ selectedPark' = parks[i]
    /\ RenderEffects(viewMode, parks, selectedMapDate, parks[i], startDate, daysAhead,
                     TRUE, error)
    /\ UNCHANGED <<viewMode, parks, parksLoading, selectedMapDate>>
    /\ UNCHANGED <<startDate, daysAhead, loadParksPark>>
    /\ UNCHANGED serverVars

\* onChange of the start date input: setStartDate(e.target.value).
SetStartDate(d) ==
    /\ viewMode = "chart"
    /\ d # startDate
    /\ startDate' = d
    /\ RenderEffects(viewMode, parks, selectedMapDate, selectedPark, d, daysAhead,
                     TRUE, error)
    /\ UNCHANGED <<viewMode, parks, parksLoading, selectedMapDate>>
    /\ UNCHANGED <<selectedPark, daysAhead, loadParksPark>>
    /\ UNCHANGED serverVars

\* onChange of the days-ahead slider: setDaysAhead(parseInt(e.target.value)).
SetDaysAhead(n) ==
    /\ viewMode = "chart"
    /\ n # daysAhead
    /\ daysAhead' = n
    /\ RenderEffects(viewMode, parks, selectedMapDate, selectedPark, startDate, n,
                     TRUE, error)
    /\ UNCHANGED <<viewMode, parks, parksLoading, selectedMapDate>>
    /\ UNCHANGED <<selectedPark, startDate, loadParksPark>>
    /\ UNCHANGED serverVars

\* What generatePredictions does with the outcome of its fetch: the data for
\* setPredictions, or the message of the error it catches.
GenerateResult(o) ==
    IF o.kind = "reject" THEN Throw(o.error.message)
    ELSE IF o.json.k = "throw" THEN Throw(o.json.error.message)
    ELSE LET data == o.json.value IN
        IF ~FetchOk(o)
            THEN Throw(IF "error" \in DOMAIN data /\ data.error # <<>>
                          THEN data.error ELSE FailedToGeneratePredictionsMessage)
            ELSE Ok(data)

\* The fetch of chart call i settles with o: setPredictions(data), or
\* setError and setPredictions(null); then setPredictionsLoading(false).
GenerateSettle(i, o) ==
    /\ ~chartCalls[i].settled
    /\ chartCalls' = [chartCalls EXCEPT ![i].settled = TRUE]
    /\ predictionsLoading' = FALSE
    /\ LET r == GenerateResult(o) IN
        IF r.k = "throw"
            THEN /\ error' = ErrorMessage(r.error)
                 /\ predictions' = Null
            ELSE /\ predictions' = r.value
                 /\ UNCHANGED error
    /\ MapIdle
    /\ UNCHANGED <<viewMode, parks, parksLoading, selectedMapDate>>
    /\ UNCHANGED <<selectedPark, startDate, daysAhead, loadParksPark>>
    /\ UNCHANGED serverVars

ChartNext ==
    \/ \E o \in ParksApiOutcomes : LoadParksSettle(o)
    \/ \E mode \in {"map", "chart"} : ChangeViewMode(mode)
    \/ Refresh
    \/ \E i \in 1..Len(parks) : SelectPark(i)
    \/ \E d \in ChartStartDates : SetStartDate(d)
    \/ \E n \in ChartDaysAhead : SetDaysAhead(n)
    \/ \E i \in 1..Len(chartCalls) :
            \E o \in PredictApiOutcomes(chartCalls[i].request) : GenerateSettle(i, o)

ChartSpec == Init /\ [][ChartNext]_vars

\* Some pending call of some run settles.
SettleAny ==
    \E r \in 1..Len(runs) : \E i \in 1..Len(runs[r].results) :
        \E o \in PredictApiOutcomes(runs[r].requests[i]) : SettleCall(r, i, o)

\* The dates the date picker holds when the page opens.
FairDates == TomorrowValues

MapFairNext ==
    \/ \E o \in ParksApiOutcomes : LoadParksSettle(o)
    \/ \E d \in FairDates : SelectMapDate(d)
    \/ \E mode \in {"map", "chart"} : ChangeViewMode(mode)
    \/ Refresh
    \/ SettleAny

\* The dashboard when every fetch of a run settles in the end: a response
\* arrives or the connection fails.  The user moves between the dates of
\* FairDates, one inside the forecast window and one past its end.
MapFairSpec == Init /\ [][MapFairNext]_vars /\ WF_vars(SettleAny)

(***************************************************************************)
(* Vocabulary of the properties.                                           *)
(***************************************************************************)
PredictDone == pc = "done" /\ endpoint = "predict"
ParksDone == pc = "done" /\ endpoint = "parks"

NonEmptyString(v) == v.t = "string" /\ v.s # ""
MissingOrEmpty(v) == v = Undef \/ v = Null \/ v = Str("")
NumberIn(v, lo, hi) == v.t = "number" /\ lo <= v.n /\ v.n <= hi
NumberOutside(v, lo, hi) == v.t = "number" /\ (v.n < lo \/ v.n > hi)

\* A PredictionRequest that satisfies its invariant.
ValidPredictionRequest(body) ==
    /\ body.json = "object"
    /\ NonEmptyString(body.park_id)
    /\ NonEmptyString(body.start_date)
    /\ NumberIn(body.days_ahead, 1, 365)

IsErrorResponse(r) == r # NoResponse /\ "error" \in DOMAIN r.body

\* The upstream replied with a non-2xx status.
UpstreamNotOk == outcome.kind = "response" /\ ~(outcome.status \in 200..299)
\* The upstream replied 2xx with a JSON object.
UpstreamOkObject ==
    /\ outcome.kind = "response"
    /\ outcome.status \in 200..299
    /\ outcome.parsed.k = "return"
    /\ outcome.parsed.value # Null

Contains(message, piece) == \E i \in 1..Len(message) : message[i] = piece

\* C1: a POST /api/predict request with non-empty park_id and start_date and
\* days_ahead in [1,365] has issued exactly one upstream call, POST /predict,
\* while it awaits upstream and when it has its response, whatever the
\* upstream outcome.
C1_OneUpstreamCall ==
    (endpoint = "predict" /\ ValidPredictionRequest(request)) =>
        /\ pc \in {"fetching", "done"}
        /\ Len(upstreamCalls) = 1
        /\ upstreamCalls[1].method = "POST"
        /\ upstreamCalls[1].path = "/predict"

C1_Witness ==
    /\ PredictDone
    /\ ValidPredictionRequest(request)
    /\ request.days_ahead = Num(365)
    /\ outcome = Reject(ConnectionError)
    /\ Len(upstreamCalls) = 1
    /\ response.status = 503

\* C2: a POST /api/predict request whose days_ahead is a number outside
\* [1,365] never reaches the upstream call and is answered HTTP 400 with one of
\* the two validation errors.
C2_OutOfRangeRejected ==
    (endpoint = "predict" /\ request.json = "object"
        /\ NumberOutside(request.days_ahead, 1, 365)) =>
        /\ pc = "done"
        /\ Len(upstreamCalls) = 0
        /\ response.status = 400
        /\ response.body.error \in {MissingFieldsMessage, DaysAheadRangeMessage}

C2_Witness ==
    /\ PredictDone
    /\ request = ObjectBody(Str("YELL"), Str("2025-07-04"), Num(366))
    /\ response.status = 400
    /\ upstreamCalls = <<>>

\* C3: a POST /api/predict request in which park_id, start_date or days_ahead
\* is missing or empty is answered HTTP 400 and never reaches the upstream
\* call.
C3_MissingFieldRejected ==
    (endpoint = "predict" /\ request.json = "object"
        /\ (\/ MissingOrEmpty(request.park_id)
            \/ MissingOrEmpty(request.start_date)
            \/ MissingOrEmpty(request.days_ahead))) =>
        /\ pc = "done"
        /\ Len(upstreamCalls) = 0
        /\ response.status = 400

C3_Witness ==
    /\ PredictDone
    /\ request = ObjectBody(Str("YELL"), Undef, Num(2))
    /\ response.status = 400
    /\ upstreamCalls = <<>>

\* C4 (as claimed): a request in which park_id and start_date are non-empty
\* strings and days_ahead is a number is never answered with the 'Missing
\* required fields' error, and when its days_ahead is outside [1,365] (0
\* included) it is answered with the 'days_ahead must be between 1 and 365'
\* error.
C4_ValidationErrorsToldApart ==
    (PredictDone /\ request.json = "object"
        /\ NonEmptyString(request.park_id)
        /\ NonEmptyString(request.start_date)
        /\ request.days_ahead.t = "number") =>
        /\ ~(IsErrorResponse(response) /\ response.body.error = MissingFieldsMessage)
        /\ NumberOutside(request.days_ahead, 1, 365) =>
            (IsErrorResponse(response) /\ response.body.error = DaysAheadRangeMessage)

\* C5: on a 200 response of POST /api/predict the predictions sequence has the
\* length and the order of the upstream sequence and its i-th element is
\* {ds: date_i, yhat: predicted_visitors_i, yhat_lower: lower_bound_i,
\* yhat_upper: upper_bound_i}.
C5_TranslationIsRenaming ==
    (PredictDone /\ response.status = 200) =>
        /\ UpstreamOkObject
        /\ LET up == outcome.parsed.value.predictions.a
               out == response.body.predictions
           IN /\ Len(out) = Len(up)
              /\ \A i \in 1..Len(up) :
                    /\ DOMAIN out[i] = {"ds", "yhat", "yhat_lower", "yhat_upper"}
                    /\ out[i].ds = up[i].date
                    /\ out[i].yhat = up[i].predicted_visitors
                    /\ out[i].yhat_lower = up[i].lower_bound
                    /\ out[i].yhat_upper = up[i].upper_bound

C5_Witness ==
    /\ PredictDone
    /\ response.status = 200
    /\ Len(response.body.predictions) = 2
    /\ response.body.predictions[1] =
        [ds |-> "2025-07-10", yhat |-> 1200, yhat_lower |-> 900, yhat_upper |-> 1500]
    /\ response.body.predictions[2].ds = "2025-07-04"

\* C6: when upstream /predict answers 2xx with a body whose success is false or
\* absent or whose predictions is null or absent, POST /api/predict answers
\* HTTP 400 whose error is the upstream's error message when it has a
\* (non-empty) one and 'Failed to generate predictions' otherwise.
C6_SemanticFailureIs400 ==
    (PredictDone /\ UpstreamOkObject
        /\ (\/ outcome.parsed.value.success \in {Undef, Bool(FALSE)}
            \/ outcome.parsed.value.predictions \in {Undef, Null})) =>
        /\ response.status = 400
        /\ IsErrorResponse(response)
        /\ LET e == outcome.parsed.value.error IN
            response.body.error =
                IF NonEmptyString(e) THEN <<e.s>> ELSE <<"Failed to generate predictions">>

C6_Witness ==
    /\ PredictDone
    /\ UpstreamOkObject
    /\ outcome.parsed.value.success = Bool(TRUE)
    /\ outcome.parsed.value.predictions = Null
    /\ response.status = 400
    /\ response.body.error = <<"No trained model for park">>

\* C7 (as claimed): when the upstream fetch of POST /api/predict or of
\* GET /api/parks is aborted because its AbortSignal.timeout budget elapsed,
\* the endpoint responds HTTP 504 with the timeout message.
C7_TimeoutIs504 ==
    (pc = "done" /\ endpoint \in {"predict", "parks"} /\ outcome \in Timeouts) =>
        /\ response.status = 504
        /\ response.body.error = TimedOutMessage

\* C8: when upstream answers with a status >= 500, POST /api/predict and
\* GET /api/parks answer HTTP 503 with the fixed message, and the response is
\* the one the handler gives to every other 5xx reply, whatever its status
\* code and error body.
C8_ServerErrorIsGeneric503 ==
    (pc = "done" /\ endpoint \in {"predict", "parks"}
        /\ outcome.kind = "response" /\ outcome.status >= 500) =>
        /\ response = [status |-> 503, body |-> [error |-> UnavailableMessage]]
        /\ \A st \in ServerErrorStatuses, tx \in ErrorTexts :
            LET other == Reply(st, tx, Throw(JsonSyntaxError)) IN
                response = IF endpoint = "predict"
                              THEN POST_respond(POST_afterFetch(request, other))
                              ELSE GET_respond(GET_afterFetch(other))

C8_Witness ==
    /\ ParksDone
    /\ outcome.kind = "response"
    /\ outcome.status = 599
    /\ outcome.text = "Traceback: db password=..."
    /\ response.status = 503

\* C9 (as claimed): when upstream answers with a non-2xx status below 500,
\* POST /api/predict and GET /api/parks answer with the upstream's status and
\* an error text that contains the upstream's error body.
C9_ClientErrorForwarded ==
    (pc = "done" /\ endpoint \in {"predict", "parks"}
        /\ UpstreamNotOk /\ outcome.status < 500) =>
        /\ response.status = outcome.status
        /\ IsErrorResponse(response)
        /\ Contains(response.body.error, outcome.text)

\* C10 (as claimed): every error response of POST /api/predict has a status in
\* {400, 503, 504, 500}.
C10_ErrorStatusInFour ==
    (PredictDone /\ IsErrorResponse(response)) =>
        response.status \in {400, 503, 504, 500}

\* C10 (amended): every error response of POST /api/predict has a status in
\* {400, 503, 504, 500}, or the status of the upstream's reply when that is
\* non-2xx and below 500.
C10_ErrorStatusInFourOrUpstream ==
    (PredictDone /\ IsErrorResponse(response)) =>
        \/ response.status \in {400, 503, 504, 500}
        \/ (UpstreamNotOk /\ outcome.status < 500 /\ response.status = outcome.status)

C10_Witness ==
    /\ PredictDone
    /\ IsErrorResponse(response)
    /\ UpstreamNotOk
    /\ outcome.status = 404
    /\ response.status = 404

HealthDone == pc = "done" /\ endpoint = "health"

\* What a handler returns is an HTTP response: a status in 200..599 and a body.
IsHttpResponse(r) ==
    /\ DOMAIN r = {"status", "body"}
    /\ r.status \in 200..599

\* The upstream replied 2xx with a body that is not JSON, or is the JSON null.
UpstreamOkUnusable ==
    /\ outcome.kind = "response"
    /\ outcome.status \in 200..299
    /\ (outcome.parsed.k = "throw" \/ outcome.parsed.value = Null)

\* C11: every invocation of the /api/predict, /api/parks and /api/health
\* handlers ends with an HTTP response, never with an exception that left the
\* handler; a request body that is no JSON or no object, and a 2xx upstream
\* reply whose body cannot be used, give HTTP 500 with the endpoint's generic
\* message on /api/predict and /api/parks.
C11_NoEscapedException ==
    pc = "done" =>
        /\ IsHttpResponse(response)
        /\ (endpoint = "predict" /\ (request.json \in {"malformed", "null"} \/ UpstreamOkUnusable))
            => response = [status |-> 500, body |-> [error |-> PredictUnexpectedMessage]]
        /\ (endpoint = "parks" /\ UpstreamOkUnusable)
            => response = [status |-> 500, body |-> [error |-> ParksUnexpectedMessage]]

C11_Witness ==
    /\ PredictDone
    /\ request = MalformedBody
    /\ upstreamCalls = <<>>
    /\ response.status = 500

\* C12: GET /api/health answers aggregate status 'healthy' with HTTP 200 if
\* and only if upstream /health replied 2xx with a body whose status is
\* exactly 'healthy'; in every other case it answers 'degraded' with HTTP
\* 503.
C12_HealthyIffUpstreamHealthy ==
    HealthDone =>
        LET upstreamHealthy ==
                /\ UpstreamOkObject
                /\ outcome.parsed.value.status = Str("healthy")
        IN  /\ IsHttpResponse(response)
            /\ upstreamHealthy => (response.status = 200 /\ response.body.status = "healthy")
            /\ ~upstreamHealthy => (response.status = 503 /\ response.body.status = "degraded")

C12_Witness ==
    /\ HealthDone
    /\ UpstreamOkObject
    /\ outcome.parsed.value.status = Str("degraded")
    /\ response.status = 503
    /\ response.body.status = "degraded"

\* C13: in a 200 response of GET /api/parks a park whose park_id is a key of
\* the coordinate table carries that entry as latitude / longitude (YELL:
\* 44.428 / -110.588), a park whose park_id is no key carries neither, and a
\* 2xx upstream list with such parks is still answered 200.
C13_CoordinatesFromTable ==
    (ParksDone /\ UpstreamOkObject) =>
        /\ response.status = 200
        /\ \A i \in 1..Len(response.body.parks) :
            LET park == response.body.parks[i] IN
                /\ park.park_id \in DOMAIN PARK_COORDINATES =>
                    /\ park.latitude = Num(PARK_COORDINATES[park.park_id].lat)
                    /\ park.longitude = Num(PARK_COORDINATES[park.park_id].lng)
                /\ park.park_id \notin DOMAIN PARK_COORDINATES =>
                    (park.latitude = Undef /\ park.longitude = Undef)
                /\ park.park_id = "YELL" =>
                    (park.latitude = Num(444280) /\ park.longitude = Num(-1105880))

C13_Witness ==
    /\ ParksDone
    /\ response.status = 200
    /\ Len(response.body.parks) = 2
    /\ response.body.parks[1].park_id = "XXXX"
    /\ response.body.parks[1].latitude = Undef
    /\ response.body.parks[2].park_id = "YELL"
    /\ response.body.parks[2].latitude = Num(444280)

\* C14: a 200 response of GET /api/parks lists the parks upstream returned, one
\* entry each in upstream order with the upstream fields unchanged, none left
\* out for lacking coordinates; total is the length of the list; an empty
\* upstream list is answered 200 with parks = [] and total = 0.
C14_ParksListedAsUpstream ==
    (ParksDone /\ UpstreamOkObject) =>
        LET up == outcome.parsed.value.a IN
            /\ response.status = 200
            /\ Len(response.body.parks) = Len(up)
            /\ response.body.total = Len(up)
            /\ \A i \in 1..Len(up) :
                /\ response.body.parks[i].park_id = up[i].park_id
                /\ response.body.parks[i].has_model = up[i].has_model
            /\ up = <<>> => (response.body.parks = <<>> /\ response.body.total = 0)

C14_Witness ==
    /\ ParksDone
    /\ response.status = 200
    /\ response.body.total = 2
    /\ response.body.parks[1].park_id = "ZION"
    /\ response.body.parks[2].park_id = "XXXX"
    /\ response.body.parks[2].has_model

(***************************************************************************)
(* Vocabulary of the map aggregation properties.                           *)
(***************************************************************************)
RunIds == 1..Len(runs)

Completed(r) == runs[r].status = "complete"

\* The whole-day difference between a date and the anchor 2025-07-04.
Offset(date) == DayNumber(date) - DayNumber("2025-07-04")

Max2(a, b) == IF a >= b THEN a ELSE b

\* The requests of run r that name park id.
RequestsFor(r, id) ==
    {i \in 1..Len(runs[r].requests) : runs[r].requests[i].park_id = Str(id)}

\* The parks of run r whose call succeeded, and those whose call failed.
Succeeded(r) ==
    {runs[r].results[i].park_id :
        i \in {j \in 1..Len(runs[r].results) :
                  runs[r].results[j] # Null /\ runs[r].results[j] # Pending}}

\* No call whose results are these is in flight.
NonePending(results) == \A i \in DOMAIN results : results[i] # Pending

HasFailedCall(r) == \E i \in 1..Len(runs[r].results) : runs[r].results[i] = Null

(***************************************************************************)
(* C15: a run issues exactly one POST /api/predict call for each park with *)
(* has_model = true and none for a park with has_model = false; every call *)
(* has start_date "2025-07-04" and days_ahead = max(1, offset + 1), offset *)
(* being the whole-day difference between the selected date and            *)
(* 2025-07-04; for 2025-07-05 days_ahead is at least 2.                    *)
(***************************************************************************)
C15_OneCallPerModelPark ==
    \A r \in RunIds :
        /\ \A j \in 1..Len(runs[r].parks) :
                Cardinality(RequestsFor(r, runs[r].parks[j].park_id))
                    = IF runs[r].parks[j].has_model THEN 1 ELSE 0
        /\ Len(runs[r].requests)
                = Cardinality({j \in 1..Len(runs[r].parks) : runs[r].parks[j].has_model})
        /\ \A i \in 1..Len(runs[r].requests) :
                /\ runs[r].requests[i].start_date = Str("2025-07-04")
                /\ runs[r].requests[i].days_ahead = Num(Max2(1, Offset(runs[r].date) + 1))
                /\ runs[r].date = "2025-07-05" => runs[r].requests[i].days_ahead.n >= 2

\* Two runs have started, one for 2025-07-05 and one for a date before the
\* anchor, over a list holding parks with and without a model.
C15_Witness ==
    \E r, q \in RunIds :
        /\ runs[r].date = "2025-07-05" /\ runs[q].date = "2025-07-03"
        /\ Len(runs[r].requests) = 2 /\ Len(runs[q].requests) = 2
        /\ \E j \in 1..Len(runs[r].parks) : ~runs[r].parks[j].has_model

(***************************************************************************)
(* C16: in the set a completed run for the selected date D produced, every *)
(* entry's prediction list is empty or holds exactly one point, and that   *)
(* point has ds = D; no point of another date is stored.                   *)
(***************************************************************************)
C16_OnlySelectedDateStored ==
    lastWriter # 0 =>
        \A id \in DOMAIN mapPredictions :
            LET points == mapPredictions[id].predictions IN
                \/ points = <<>>
                \/ Len(points) = 1 /\ points[1].ds = runs[lastWriter].date

\* A run for 2025-07-05 has written the set: one park with its point, one
\* park with no point for that date.
C16_Witness ==
    /\ lastWriter # 0
    /\ runs[lastWriter].date = "2025-07-05"
    /\ \E id, other \in DOMAIN mapPredictions :
        /\ Len(mapPredictions[id].predictions) = 1
        /\ mapPredictions[other].predictions = <<>>

(***************************************************************************)
(* C17: the failure of per-park calls of a run (fetch rejected, non-2xx    *)
(* response, body that does not parse) neither aborts the run nor sets the *)
(* page error: a step of a run's call leaves error as it is; once all its  *)
(* calls have settled the run is complete and the set is replaced by the   *)
(* results of the calls that succeeded; error is null when a run has been  *)
(* launched and becomes "Failed to load some predictions for map view"     *)
(* only in a step in which a run ends failed.                              *)
(***************************************************************************)
C17_CallFailuresStayLocal ==
    [][/\ \A r \in RunIds :
            runs'[r] # runs[r] =>
                /\ error' = error
                /\ NonePending(runs'[r].results) =>
                    /\ runs'[r].status = "complete"
                    /\ DOMAIN mapPredictions' = Succeeded(r)'
                    /\ \A i \in 1..Len(runs'[r].results) :
                            runs'[r].results[i] # Null =>
                                mapPredictions'[runs'[r].results[i].park_id]
                                    = runs'[r].results[i].data
       /\ Len(runs') > Len(runs) =>
            \/ runs'[Len(runs')].status # "failed" /\ error' = Null
            \/ runs'[Len(runs')].status = "failed"
                    /\ error' = ErrorMessage(MapFailedMessage)
       /\ (error' = ErrorMessage(MapFailedMessage) /\ error' # error) =>
            (Len(runs') > Len(runs) /\ runs'[Len(runs')].status = "failed")
      ]_vars

\* A run is complete although one of its calls failed: the set holds the
\* result of the call that succeeded and error is null.
C17_Witness ==
    \E r \in RunIds :
        /\ Completed(r) /\ lastWriter = r
        /\ HasFailedCall(r)
        /\ Succeeded(r) # {}
        /\ DOMAIN mapPredictions = Succeeded(r)
        /\ error = Null

(***************************************************************************)
(* C18: a run writes the set at most once, and only after every one of its *)
(* calls has settled; while one of its calls is pending the run leaves the *)
(* set unchanged, so the set never holds the results of only some parks of *)
(* a run whose other calls are in flight.                                  *)
(***************************************************************************)
C18_SingleWriteAfterAllSettled ==
    /\ [](\A r \in RunIds :
            /\ runs[r].writes <= 1
            /\ (runs[r].writes = 1 => NonePending(runs[r].results))
            /\ (lastWriter = r => runs[r].writes = 1))
    /\ [][/\ \A r \in RunIds :
                (runs'[r] # runs[r] /\ ~NonePending(runs'[r].results)) =>
                    (mapPredictions' = mapPredictions /\ lastWriter' = lastWriter)
          /\ mapPredictions' # mapPredictions =>
                \E r \in 1..Len(runs') :
                    /\ lastWriter' = r
                    /\ runs'[r].writes = 1
                    /\ (r \in RunIds => runs[r].writes = 0)
                    /\ NonePending(runs'[r].results)
          ]_vars

\* One call of a run has settled and the other is pending, the set is still
\* the one an earlier run wrote.
C18_Witness ==
    \E r \in RunIds :
        /\ lastWriter # 0 /\ lastWriter # r
        /\ runs[r].writes = 0
        /\ \E i, j \in 1..Len(runs[r].results) :
            /\ runs[r].results[i] = Pending
            /\ runs[r].results[j] # Pending /\ runs[r].results[j] # Null
        /\ mapPredictions = NewMapPredictions(runs[lastWriter].results)

(***************************************************************************)
(* C19: when run A was launched before run B and B completes before A,     *)
(* A's results are discarded at A's completion: the set keeps B's mapping. *)
(* Stated on the states: once runs have completed, the set is the mapping  *)
(* of the completed run that was launched last.                            *)
(***************************************************************************)
C19_StaleRunDiscarded ==
    LET Done == {r \in RunIds : Completed(r)}
        Latest == CHOOSE r \in Done : \A q \in Done : q <= r
    IN  Done # {} => mapPredictions = NewMapPredictions(runs[Latest].results)

(***************************************************************************)
(* C20: the set a completed run produced has an entry for every park with  *)
(* has_model = true of the park list the run used; a park whose call       *)
(* failed, or whose response had no point for the date, is present with an *)
(* empty prediction list.                                                  *)
(***************************************************************************)
C20_EveryModelParkPresent ==
    lastWriter # 0 =>
        \A j \in 1..Len(runs[lastWriter].parks) :
            runs[lastWriter].parks[j].has_model =>
                /\ runs[lastWriter].parks[j].park_id \in DOMAIN mapPredictions
                /\ Len(mapPredictions[runs[lastWriter].parks[j].park_id].predictions) <= 1

(***************************************************************************)
(* C21: every 200 response of POST /api/predict has confidence_level 80,   *)
(* model_performance {mape: 0, mae: 0, rmse: 0}, the park_id of the        *)
(* request and request_params equal to the request body as received,       *)
(* whatever upstream returned.                                             *)
(***************************************************************************)
C21_ResponseEnvelopeFixed ==
    (PredictDone /\ response.status = 200) =>
        /\ response.body.confidence_level = 80
        /\ response.body.model_performance = [mape |-> 0, mae |-> 0, rmse |-> 0]
        /\ response.body.park_id = request.park_id
        /\ response.body.request_params = request

\* A 200 response to a request of 365 days for park XXXX, upstream having
\* returned two records.
C21_Witness ==
    /\ PredictDone
    /\ response.status = 200
    /\ request.park_id = Str("XXXX")
    /\ Len(outcome.parsed.value.predictions.a) = 2
    /\ response.body.request_params.days_ahead = Num(365)

(***************************************************************************)
(* C29: when upstream /predict replies 2xx with success = true and         *)
(* predictions = [] (empty, not null), POST /api/predict answers HTTP 200  *)
(* with an empty predictions list, not the 400 of a semantic failure.      *)
(***************************************************************************)
C29_EmptyPredictionsIsSuccess ==
    (PredictDone /\ UpstreamOkObject
        /\ outcome.parsed.value.success = Bool(TRUE)
        /\ outcome.parsed.value.predictions = Arr(<<>>)) =>
        /\ response.status = 200
        /\ response.body.predictions = <<>>

C29_Witness ==
    /\ PredictDone
    /\ UpstreamOkObject
    /\ outcome.parsed.value.success = Bool(TRUE)
    /\ outcome.parsed.value.predictions = Arr(<<>>)
    /\ outcome.parsed.value.error = Str("No trained model for park")
    /\ response.status = 200

(***************************************************************************)
(* C22: for a selected date D on or after the anchor 2025-07-04 the window *)
(* a run requests (start 2025-07-04, days_ahead days) contains D:          *)
(* D = anchor + k for some 0 <= k < days_ahead; for D before the anchor    *)
(* the request is issued with days_ahead = 1 and its window does not       *)
(* contain D.                                                              *)
(***************************************************************************)
WindowContains(req, date) ==
    \E k \in 0..(req.days_ahead.n - 1) :
        DayNumber(date) = DayNumber(req.start_date.s) + k

C22_WindowContainsSelectedDate ==
    \A r \in RunIds :
        /\ Len(runs[r].requests) = Len(ParksWithModels(runs[r].parks))
        /\ \A i \in 1..Len(runs[r].requests) :
            /\ runs[r].requests[i].start_date = Str("2025-07-04")
            /\ runs[r].requests[i].days_ahead.t = "number"
            /\ IF DayNumber(runs[r].date) >= DayNumber("2025-07-04")
                    THEN WindowContains(runs[r].requests[i], runs[r].date)
                    ELSE /\ runs[r].requests[i].days_ahead = Num(1)
                         /\ ~WindowContains(runs[r].requests[i], runs[r].date)

\* Requests have been issued for a date after the anchor and for a date
\* before it.
C22_Witness ==
    \E r, q \in RunIds :
        /\ runs[r].date = "2025-07-05" /\ runs[r].requests # <<>>
        /\ runs[q].date = "2025-07-03" /\ runs[q].requests # <<>>

(***************************************************************************)
(* C23: in map view with a non-empty park list, every change of the        *)
(* selected date and every change of the park list starts a new run for    *)
(* the new values and leaves the runs in flight as they are; with an empty *)
(* park list or in chart view no run is started.                           *)
(***************************************************************************)
\* This step starts a run for the date and the park list it leaves.
StartsRun ==
    /\ Len(runs') = Len(runs) + 1
    /\ runs'[Len(runs')].date = selectedMapDate'
    /\ runs'[Len(runs')].parks = parks'
    /\ \A r \in RunIds : runs'[r] = runs[r]

\* This step is a change of the date or of the park list in map view that
\* leaves a non-empty list.
MapInputChanged ==
    /\ viewMode = "map" /\ viewMode' = "map"
    /\ parks' # <<>>
    /\ selectedMapDate' # selectedMapDate \/ parks' # parks

\* This step is a click on Refresh: loadParks starts.
RefreshClicked == ~parksLoading /\ parksLoading'

C24_SetOfOneRun ==
    IF lastWriter = 0 THEN mapPredictions = NoPredictions
    ELSE \A id \in DOMAIN mapPredictions :
            /\ \E i \in 1..Len(runs[lastWriter].results) :
                    /\ runs[lastWriter].results[i] # Null
                    /\ runs[lastWriter].results[i] # Pending
                    /\ runs[lastWriter].results[i].park_id = id
                    /\ runs[lastWriter].results[i].data = mapPredictions[id]
            /\ \A k \in 1..Len(mapPredictions[id].predictions) :
                    mapPredictions[id].predictions[k].ds = runs[lastWriter].date

\* Two overlapping runs for different dates have both completed, each with
\* a point for its date; the set holds two entries of the last writer.
C24_Witness ==
    /\ Len(runs) = 2
    /\ Completed(1) /\ Completed(2)
    /\ runs[1].date # runs[2].date
    /\ lastWriter = 1
    /\ \A r \in RunIds : \A i \in 1..Len(runs[r].results) :
            runs[r].results[i] # Null /\ Len(runs[r].results[i].data.predictions) = 1
    /\ Cardinality(DOMAIN mapPredictions) = 2

(***************************************************************************)
(* C25: every request a run issues has days_ahead in [1,365], whatever     *)
(* value the selected date holds (its initial value, the day after today,  *)
(* included), so that no map request is rejected by the range validation   *)
(* of POST /api/predict.                                                   *)
(***************************************************************************)
C25_MapRequestsInRange ==
    \A r \in RunIds : \A i \in 1..Len(runs[r].requests) :
        /\ NumberIn(runs[r].requests[i].days_ahead, 1, 365)
        /\ ~DaysAheadOutOfRange(runs[r].requests[i])

(***************************************************************************)
(* C26: mapPredictionsLoading is true in every state in which a run is in  *)
(* flight, overlapping runs included: the completion of a run does not     *)
(* clear the flag while another run has pending calls.                     *)
(***************************************************************************)
RunInFlight == \E r \in RunIds : runs[r].status = "fetching"

C26_LoadingWhileInFlight == RunInFlight => mapPredictionsLoading

(***************************************************************************)
(* C27: a run terminates once all its calls have settled, and the step in  *)
(* which it terminates, complete or failed, sets mapPredictionsLoading to  *)
(* false; when every call settles in the end, a dashboard with a run in    *)
(* flight reaches a state with no run in flight and the flag false.        *)
(***************************************************************************)
Terminated(run) == run.status \in {"complete", "failed"}

C27_RunsTerminate ==
    /\ [](\A r \in RunIds : NonePending(runs[r].results) => Terminated(runs[r]))
    /\ [][\A r \in 1..Len(runs') :
            (Terminated(runs'[r]) /\ (r \in RunIds => ~Terminated(runs[r]))) =>
                ~mapPredictionsLoading'
         ]_vars
    /\ (RunInFlight ~> (~RunInFlight /\ ~mapPredictionsLoading))

\* Two runs have terminated, one of them with a failed call; none is in
\* flight and the flag is false.
C27_Witness ==
    /\ Len(runs) = 2
    /\ ~RunInFlight
    /\ ~mapPredictionsLoading
    /\ \A r \in RunIds : Len(runs[r].results) = 2
    /\ \E r \in RunIds : HasFailedCall(r)

(***************************************************************************)
(* C30: in chart view, whenever no chart request is in flight, the         *)
(* displayed predictions are null or the response to the request launched  *)
(* last, so their park_id is the park_id of the selected park.             *)
(***************************************************************************)
ChartInFlight == \E i \in 1..Len(chartCalls) : ~chartCalls[i].settled

C30_DisplayedIsLatest ==
    (viewMode = "chart" /\ chartCalls # <<>> /\ ~ChartInFlight /\ predictions # Null) =>
        /\ predictions.request_params = chartCalls[Len(chartCalls)].request
        /\ selectedPark # Null
        /\ predictions.park_id = Str(selectedPark.park_id)

====
